---------------------------- MODULE Spec2Model ----------------------------
(***************************************************************************)
(* A model of the search engine of Chess2D-V0 (src/ai/minimax_ai.py):      *)
(* MinimaxAI.get_move, iterative_deepening_search, minimax, order_moves,   *)
(* evaluate_position, has_major_pieces and the opening-book stage.         *)
(*                                                                         *)
(* The rules engine (python-chess) is not part of the repository.  It is   *)
(* represented by a small game graph: a position is a node id (its fen),   *)
(* with the attributes the engine reads from chess.Board: side to move,    *)
(* piece placement, check, game over, the legal-move enumeration, and the  *)
(* position a pass (null move) leads to.  Two move orders that lead to the *)
(* same node are a transposition.                                          *)
(***************************************************************************)
EXTENDS Integers, Sequences, FiniteSets, TLC

\* ------------------------------------------------------------------------
\* Values of the python program
\* ------------------------------------------------------------------------

\* python's None where a square, a piece or a move is expected
NoSquare == -1

NoPiece == [t |-> "none", c |-> FALSE, sq |-> NoSquare]

NoMove == [from |-> NoSquare, to |-> NoSquare, cap |-> FALSE, nxt |-> 0]

\* float('inf'); -Inf is float('-inf')
Inf == 1000000

\* -x on floats: -inf and inf swap
Neg(x) == 0 - x

\* x + 1 and x - 1 on floats: inf + 1 = inf, -inf - 1 = -inf
Plus1(x) == IF x = Inf \/ x = 0 - Inf THEN x ELSE x + 1

Minus1(x) == IF x = Inf \/ x = 0 - Inf THEN x ELSE x - 1

Max(a, b) == IF a >= b THEN a ELSE b

Min(a, b) == IF a <= b THEN a ELSE b

Abs(x) == IF x < 0 THEN 0 - x ELSE x

\* chess.WHITE = True, chess.BLACK = False
WHITE == TRUE

BLACK == FALSE

\* PIECE_VALUES
PieceValue(t) ==
    CASE t = "P" -> 100
      [] t = "N" -> 320
      [] t = "B" -> 330
      [] t = "R" -> 500
      [] t = "Q" -> 900
      [] t = "K" -> 20000

\* PAWN_TABLE, indexed by square 0..63 (a1 = 0, h8 = 63)
PAWN_TABLE ==
    << 0,  0,  0,  0,  0,  0,  0,  0,
       50, 50, 50, 50, 50, 50, 50, 50,
       10, 10, 20, 30, 30, 20, 10, 10,
       5,  5, 10, 25, 25, 10,  5,  5,
       0,  0,  0, 20, 20,  0,  0,  0,
       5, -5,-10,  0,  0,-10, -5,  5,
       5, 10, 10,-20,-20, 10, 10,  5,
       0,  0,  0,  0,  0,  0,  0,  0 >>

PawnTable(sq) == PAWN_TABLE[sq + 1]

\* chess.square_file, chess.square_rank, chess.square_mirror (sq ^ 56)
SquareFile(sq) == sq % 8

SquareRank(sq) == sq \div 8

SquareMirror(sq) == (7 - SquareRank(sq)) * 8 + SquareFile(sq)

\* (abs(3.5 - file) + abs(3.5 - rank)) * 10; the sum of the two half-integers
\* is an integer, so the product is computed in halves: (|7-2f| + |7-2r|) * 5
CenterPenalty(sq) == (Abs(7 - 2 * SquareFile(sq)) + Abs(7 - 2 * SquareRank(sq))) * 5

\* a piece on a square: type t, colour c, square sq
Pc(t, c, sq) == [t |-> t, c |-> c, sq |-> sq]

\* ------------------------------------------------------------------------
\* evaluate_position, on what it reads of the board: turn, pieces,
\* mob = len(list(board.legal_moves)), check = board.is_check().
\* board.is_checkmate() is check with no legal move.
\* ------------------------------------------------------------------------

IsCheckmate(b) == b.check /\ b.mob = 0

\* the value of one piece from White's side (lines 322-336)
PieceScore(pc) ==
    LET base == PieceValue(pc.t)
        value == IF pc.t = "P"
                 THEN base + PawnTable(IF pc.c THEN pc.sq ELSE SquareMirror(pc.sq))
                 ELSE IF pc.t \in {"B", "N"}
                      THEN base - CenterPenalty(pc.sq)
                      ELSE base
    IN  IF pc.c THEN value ELSE 0 - value

RECURSIVE MaterialScore(_)
MaterialScore(S) ==
    IF S = {} THEN 0
    ELSE LET pc == CHOOSE x \in S : TRUE
         IN  PieceScore(pc) + MaterialScore(S \ {pc})

PawnCount(S, c) == Cardinality({pc \in S : pc.t = "P" /\ pc.c = c})

\* the value returned for a checkmate (line 314)
MateScore(b) == IF b.turn THEN -20000 ELSE 20000

\* the score accumulated from White's side (lines 316-350)
WhiteScore(b) ==
    MaterialScore(b.pieces)
    + (IF b.turn THEN b.mob * 10 ELSE 0 - b.mob * 10)
    + PawnCount(b.pieces, WHITE) * 5 - PawnCount(b.pieces, BLACK) * 5
    + (IF b.check THEN (IF b.turn THEN -50 ELSE 50) ELSE 0)

EvaluatePosition(b) ==
    IF IsCheckmate(b) THEN MateScore(b)
    ELSE IF b.turn THEN WhiteScore(b) ELSE 0 - WhiteScore(b)

\* has_major_pieces: the side to move owns a piece that is neither king nor pawn
HasMajorPieces(b) ==
    \E pc \in b.pieces : pc.c = b.turn /\ pc.t \notin {"K", "P"}


\* ------------------------------------------------------------------------
\* The rules engine: a game graph of 18 positions.
\*   1            the start position (White to move)
\*   2, 3         after White's a = Ra1-a7 or b = Ng1-f3 (Black to move)
\*   4, 5, 6      after Black's reply (White to move)
\*   7 .. 11      after White's second move (Black to move, game over);
\*                8 is reached by a,x,b and by b,x,a: a transposition
\*   12 .. 17     the positions after a pass in 1 .. 6
\*   18           a finished game with White to move
\* Every position with no legal move is game over (checkmate or stalemate),
\* as board.is_game_over() has it; a position can be over with legal moves
\* left (a draw by rule).
\* ------------------------------------------------------------------------

\* a legal move: from-square, to-square, board.is_capture(move), and the
\* position board.push(move) leads to
Mv(f, t, cap, nxt) == [from |-> f, to |-> t, cap |-> cap, nxt |-> nxt]

NoMoves == << >>

WKing == Pc("K", WHITE, 4)

BKing == Pc("K", BLACK, 60)

\* the pieces of the start position and of the positions after a and b
Start == {WKing, Pc("R", WHITE, 0), Pc("N", WHITE, 6), Pc("P", WHITE, 35),
          BKing, Pc("R", BLACK, 63), Pc("P", BLACK, 52)}

AfterA == (Start \ {Pc("R", WHITE, 0)}) \cup {Pc("R", WHITE, 48)}

AfterB == (Start \ {Pc("N", WHITE, 6)}) \cup {Pc("N", WHITE, 21)}

\* Black's replies: x = Rh8-h2, y = e7-e5
AfterX(S) == (S \ {Pc("R", BLACK, 63)}) \cup {Pc("R", BLACK, 15)}

AfterY(S) == (S \ {Pc("P", BLACK, 52)}) \cup {Pc("P", BLACK, 36)}

\* the material of each variant of the graph: extra pieces on some positions
Extra(v, p) ==
    CASE v = 2 /\ p = 9  -> {Pc("Q", WHITE, 27)}
      [] v = 2 /\ p = 11 -> {Pc("B", BLACK, 26)}
      [] v = 2 /\ p = 12 -> {Pc("B", BLACK, 26)}
      [] v = 3 /\ p = 8  -> {Pc("Q", BLACK, 27)}
      [] v = 3 /\ p = 10 -> {Pc("N", WHITE, 18)}
      [] v = 4 /\ p = 3  -> {Pc("Q", WHITE, 27)}
      [] v = 4 /\ p = 9  -> {Pc("R", BLACK, 24)}
      [] OTHER -> {}

BasePieces(p) ==
    CASE p \in {1, 12} -> Start
      [] p \in {2, 13} -> AfterA
      [] p \in {3, 14} -> AfterB
      [] p \in {4, 15} -> AfterX(AfterA)
      [] p \in {5, 16} -> AfterY(AfterA)
      [] p \in {6, 17} -> AfterX(AfterB)
      [] p = 7  -> (AfterX(AfterA) \ {Pc("R", WHITE, 48), Pc("P", BLACK, 52)})
                       \cup {Pc("R", WHITE, 52)}
      [] p = 8  -> (AfterX(AfterA) \ {Pc("N", WHITE, 6)}) \cup {Pc("N", WHITE, 21)}
      [] p = 9  -> (AfterY(AfterA) \ {Pc("N", WHITE, 6)}) \cup {Pc("N", WHITE, 21)}
      [] p = 10 -> (AfterY(AfterA) \ {Pc("P", WHITE, 35), Pc("P", BLACK, 36)})
                       \cup {Pc("P", WHITE, 44)}
      [] p = 11 -> (AfterX(AfterB) \ {Pc("N", WHITE, 21), Pc("R", BLACK, 15)})
                       \cup {Pc("N", WHITE, 15)}
      [] p = 18 -> {WKing, BKing}

Positions == 1 .. 18

\* board.turn
Turn(p) == p \in {1, 4, 5, 6, 13, 14, 18}

\* board.is_check()
InCheck(p) == p \in {3, 7}

\* list(board.legal_moves), in the engine's enumeration order
LegalMoves(p) ==
    CASE p = 1  -> << Mv(0, 48, FALSE, 2), Mv(6, 21, FALSE, 3) >>
      [] p = 2  -> << Mv(63, 15, FALSE, 4), Mv(52, 36, FALSE, 5) >>
      [] p = 3  -> << Mv(63, 15, FALSE, 6), Mv(60, 59, FALSE, 5) >>
      [] p = 4  -> << Mv(6, 21, FALSE, 8), Mv(48, 52, TRUE, 7) >>
      [] p = 5  -> << Mv(6, 21, FALSE, 9), Mv(35, 44, TRUE, 10) >>
      [] p = 6  -> << Mv(0, 48, FALSE, 8), Mv(21, 15, TRUE, 11) >>
      [] p = 9  -> << Mv(63, 56, FALSE, 18) >>
      [] p = 12 -> << Mv(63, 15, FALSE, 6) >>
      [] p = 13 -> << Mv(6, 21, FALSE, 8) >>
      [] p = 14 -> << Mv(0, 48, FALSE, 8) >>
      [] p \in {15, 16, 17} -> << Mv(60, 59, FALSE, 18) >>
      [] OTHER  -> NoMoves

\* board.is_game_over()
GameOver(p) == p \in {7, 8, 9, 10, 11, 18}

\* the position after board.push(chess.Move.null())
NullNext(p) == IF p <= 6 THEN p + 11 ELSE 18

\* what evaluate_position, has_major_pieces and order_moves read of the board
\* in position p of variant v
BoardAt(v, p) ==
    [turn   |-> Turn(p),
     pieces |-> BasePieces(p) \cup Extra(v, p),
     mob    |-> Len(LegalMoves(p)),
     check  |-> InCheck(p)]

\* board.piece_at(square)
PieceAt(b, sq) ==
    IF \E pc \in b.pieces : pc.sq = sq
    THEN CHOOSE pc \in b.pieces : pc.sq = sq
    ELSE NoPiece


\* ------------------------------------------------------------------------
\* The engine (one MinimaxAI instance), the board it is handed, and the
\* python call stack of the call in progress
\* ------------------------------------------------------------------------

\* bounds of the model
MaxDepth == 3

\* the deepest direct call of minimax
MaxCallDepth == 4

NVariants == 4

MaxCalls == 2

VARIABLES
    variant,      \* which variant of the game graph the rules engine plays
    max_depth,    \* self.max_depth
    use_book,     \* self.use_book
    unlimited,    \* self.time_limit is float('inf'): is_time_up() is never true
    clock,        \* "up": time.time() - self.start_time > self.time_limit,
                  \* "run": not yet
    nodes,        \* self.nodes
    tt,           \* self.transposition_table: fen -> value
    killer,       \* self.killer_moves: <<depth, from>> -> to (absent: None)
    history,      \* self.history_table: <<from, to>> -> score
    board,        \* the chess.Board: the positions from the start of the
                  \* game to the current one (the move stack plus one)
    stack,        \* the frames of get_move, iterative_deepening_search, minimax
    ret,          \* the value the last finished minimax frame returned
    best_move,    \* the move the last finished search or get_move returned
    call,         \* the API call in progress or last finished
    calls,        \* the number of API calls made to this engine
    obs,          \* what was observed of the last step (for the properties)
    rev,          \* the positions whose legal moves the rules engine
                  \* enumerates in the reverse order
    prev,         \* the last call made to the engine this one replaced
    position      \* the board handed to evaluate_position called on its own

vars == << variant, max_depth, use_book, unlimited, clock, nodes, tt, killer,
           history, board, stack, ret, best_move,
           call, calls, obs, rev, prev, position >>

config == << variant, max_depth, use_book, unlimited, rev, prev, position >>

\* board.fen(), board.push(move), board.pop()
Fen(b) == b[Len(b)]

BoardPush(b, p) == Append(b, p)

BoardPop(b) == SubSeq(b, 1, Len(b) - 1)

\* a dict with d[k] = v
Store(d, k, v) == [x \in DOMAIN d \cup {k} |-> IF x = k THEN v ELSE d[x]]

EmptyDict == [x \in {} |-> 0]

\* the rows of self.killer_moves (line 56): one per depth 0 .. 63
KillerRows == 64

\* line 122 raises IndexError: order_moves reads self.killer_moves[depth] for
\* the first legal move, and depth is no row of the table
OrderRaises(p, depth) == depth >= KillerRows /\ LegalMoves(p) # << >>

\* self.killer_moves[depth][from_square]
KillerAt(kl, depth, from) ==
    IF << depth, from >> \in DOMAIN kl THEN kl[<< depth, from >>] ELSE NoSquare

\* ------------------------------------------------------------------------
\* order_moves
\* ------------------------------------------------------------------------

\* the score order_moves gives one move (lines 113-129)
MoveScore(b, kl, hs, depth, m) ==
    LET victim   == PieceAt(b, m.to)
        attacker == PieceAt(b, m.from)
        capture  == IF m.cap /\ victim # NoPiece /\ attacker # NoPiece
                    THEN 10000 + PieceValue(victim.t) - PieceValue(attacker.t)
                    ELSE 0
        kill     == IF KillerAt(kl, depth, m.from) = m.to THEN 9000 ELSE 0
        hist     == IF << m.from, m.to >> \in DOMAIN hs
                    THEN hs[<< m.from, m.to >>] ELSE 0
    IN  capture + kill + hist

\* list.sort(key = score, reverse = True): descending and stable.  The
\* indices of ms left in I, the best first; among equal scores the lower index.
RECURSIVE SortByScore(_, _, _)
SortByScore(ms, sc, I) ==
    IF I = {} THEN << >>
    ELSE LET k == CHOOSE i \in I :
                    \A j \in I : sc[i] > sc[j] \/ (sc[i] = sc[j] /\ i <= j)
         IN  << ms[k] >> \o SortByScore(ms, sc, I \ {k})

\* list(board.legal_moves) as the rules engine at hand enumerates it
RECURSIVE Reverse(_)
Reverse(q) == IF q = << >> THEN << >> ELSE Append(Reverse(Tail(q)), Head(q))

Enumerate(p) == IF p \in rev THEN Reverse(LegalMoves(p)) ELSE LegalMoves(p)

OrderMoves(v, p, kl, hs, depth) ==
    LET ms == Enumerate(p)
        sc == [i \in 1 .. Len(ms) |-> MoveScore(BoardAt(v, p), kl, hs, depth, ms[i])]
    IN  SortByScore(ms, sc, 1 .. Len(ms))

\* ------------------------------------------------------------------------
\* is_time_up()
\* ------------------------------------------------------------------------

\* what one call of is_time_up() can answer: never with an infinite limit,
\* always once the limit has passed, else either (time passes between polls)
Polls == IF unlimited THEN {FALSE}
         ELSE IF clock = "up" THEN {TRUE} ELSE {FALSE, TRUE}

ClockAfter(up) == IF up THEN "up" ELSE clock

\* ------------------------------------------------------------------------
\* Frames
\* ------------------------------------------------------------------------

Frame(fn, depth, alpha, beta, maxi, entry) ==
    [fn |-> fn, pc |-> "enter", depth |-> depth, alpha |-> alpha, beta |-> beta,
     maxi |-> maxi, moves |-> << >>, i |-> 0, best |-> NoMove, val |-> 0,
     hash |-> Fen(entry), entry |-> entry]

Top == stack[Len(stack)]

Rest == SubSeq(stack, 1, Len(stack) - 1)

Running(fn, pc) == stack # << >> /\ Top.fn = fn /\ Top.pc = pc

\* the top frame replaced by f, and a callee g on top of it
Replace(f) == Append(Rest, f)

Invoke(f, g) == Append(Append(Rest, f), g)

\* what the last step did, with the inputs it drew
Observe(ev) == [ev |-> ev, info |-> << >>]

ObserveWith(ev, info) == [ev |-> ev, info |-> info]


\* ------------------------------------------------------------------------
\* minimax(board, depth, alpha, beta, maximizing_player)
\* ------------------------------------------------------------------------

\* a faulty recursive call that hands the child the flag of its parent; C12
\* must reject it
ChildOfTheSameSide(f, b, alpha, beta) ==
    Frame("minimax", f.depth - 1, alpha, beta, f.maxi, b)

\* the frame of minimax(board, depth - 1, alpha, beta, maxi) called with the
\* board b
Child(f, b, alpha, beta) ==
    Frame("minimax", f.depth - 1, alpha, beta, ~f.maxi, b)

\* R of the null-move reduction (line 248)
NullR == 2

\* a faulty null-move test that passes even when the side to move is in
\* check; C11 must reject it
NullMoveTriedInCheck(f, p) ==
    /\ f.depth >= 3
    /\ HasMajorPieces(BoardAt(variant, p))

\* the null-move test of line 247
NullMoveTried(f, p) ==
    /\ f.depth >= 3
    /\ ~InCheck(p)
    /\ HasMajorPieces(BoardAt(variant, p))

\* a faulty probe that counts the node before it looks the position up
\* (line 238 moved above line 234); C10 must reject it
HitCountingTheNode ==
    /\ Running("minimax", "enter")
    /\ Fen(board) \in DOMAIN tt
    /\ stack' = Rest
    /\ ret' = tt[Fen(board)]
    /\ nodes' = nodes + 1
    /\ obs' = ObserveWith("hit", [depth |-> Top.depth, alpha |-> Top.alpha,
                                  beta |-> Top.beta, maxi |-> Top.maxi])
    /\ UNCHANGED << config, best_move, clock, tt, killer, history, board, call,
                    calls >>

\* a faulty probe that returns the cached value with the sign of the caller
\* (the negation of the call site moved into line 236); C19 must reject it
HitNegated ==
    /\ Running("minimax", "enter")
    /\ Fen(board) \in DOMAIN tt
    /\ stack' = Rest
    /\ ret' = Neg(tt[Fen(board)])
    /\ obs' = ObserveWith("hit", [depth |-> Top.depth, alpha |-> Top.alpha,
                                  beta |-> Top.beta, maxi |-> Top.maxi])
    /\ UNCHANGED << config, best_move, clock, nodes, tt, killer, history,
                    board, call, calls >>

\* lines 234-236: the position is in the transposition table
MinimaxHit ==
    /\ Running("minimax", "enter")
    /\ Fen(board) \in DOMAIN tt
    /\ stack' = Rest
    /\ ret' = tt[Fen(board)]
    /\ obs' = ObserveWith("hit", [depth |-> Top.depth, alpha |-> Top.alpha,
                                  beta |-> Top.beta, maxi |-> Top.maxi])
    /\ UNCHANGED << config, best_move, clock, nodes, tt, killer, history,
                    board, call, calls >>

\* a faulty leaf that returns the evaluation without caching it (line 242
\* left out); C18 must reject it
LeafWithoutCaching ==
    /\ Running("minimax", "enter")
    /\ Fen(board) \notin DOMAIN tt
    /\ LET p     == Fen(board)
           quick == Top.depth = 0 \/ GameOver(p)
           value == EvaluatePosition(BoardAt(variant, p))
       IN  \E up \in (IF quick THEN {FALSE} ELSE Polls) :
              /\ quick \/ up
              /\ clock' = ClockAfter(up)
              /\ nodes' = nodes + 1
              /\ stack' = Rest
              /\ ret' = value
              /\ obs' = Observe("leaf")
    /\ UNCHANGED << config, best_move, tt, killer, history, board, call, calls >>

\* lines 238-243: depth 0, game over or time up: evaluate, cache, return.
\* The clock is read only if depth # 0 and the game is not over.
MinimaxLeaf ==
    /\ Running("minimax", "enter")
    /\ Fen(board) \notin DOMAIN tt
    /\ LET p     == Fen(board)
           quick == Top.depth = 0 \/ GameOver(p)
           value == EvaluatePosition(BoardAt(variant, p))
       IN  \E up \in (IF quick THEN {FALSE} ELSE Polls) :
              /\ quick \/ up
              /\ clock' = ClockAfter(up)
              /\ nodes' = nodes + 1
              /\ tt' = Store(tt, Top.hash, value)
              /\ stack' = Rest
              /\ ret' = value
              /\ obs' = Observe("leaf")
    /\ UNCHANGED << config, best_move, killer, history, board, call, calls >>

\* a faulty entry that searches a node without probing the transposition
\* table first (lines 234-236 left out); C16 must reject it
InteriorWithoutProbe ==
    /\ Running("minimax", "enter")
    /\ Top.depth # 0
    /\ ~GameOver(Fen(board))
    /\ FALSE \in Polls

\* the node is searched: not cached, depth > 0, game not over, time not up
Interior ==
    /\ Running("minimax", "enter")
    /\ Fen(board) \notin DOMAIN tt
    /\ Top.depth # 0
    /\ ~GameOver(Fen(board))
    /\ FALSE \in Polls

\* lines 257-261 (and 286-288): the move loop starts on board b.  order_moves
\* is called once; the first move is pushed and searched with the full window.
\* A node with no move falls out of the loop and returns -inf or inf.
StartLoop(f, b) ==
    LET ms   == OrderMoves(variant, Fen(b), killer, history, f.depth)
        val0 == IF f.maxi THEN 0 - Inf ELSE Inf
    IN  IF ms = << >>
        THEN /\ tt' = Store(tt, f.hash, val0)
             /\ stack' = Rest
             /\ ret' = val0
             /\ board' = b
        ELSE /\ tt' = tt
             /\ ret' = ret
             /\ board' = BoardPush(b, ms[1].nxt)
             /\ stack' = Invoke([f EXCEPT !.pc = "full_ret", !.moves = ms,
                                          !.i = 1, !.val = val0],
                                Child(f, BoardPush(b, ms[1].nxt),
                                      Neg(f.beta), Neg(f.alpha)))

\* lines 247-250: the pass is pushed and searched at depth - 1 - R with the
\* window [-beta, -beta + 1]
MinimaxNullMove ==
    /\ Interior
    /\ NullMoveTried(Top, Fen(board))
    /\ LET b1 == BoardPush(board, NullNext(Fen(board)))
           g  == Frame("minimax", Top.depth - 1 - NullR, Neg(Top.beta),
                       Plus1(Neg(Top.beta)), ~Top.maxi, b1)
       IN  /\ board' = b1
           /\ stack' = Invoke([Top EXCEPT !.pc = "null_ret"], g)
    /\ nodes' = nodes + 1
    /\ obs' = Observe("null")
    /\ UNCHANGED << config, clock, tt, killer, history, ret, best_move, call,
                    calls >>

\* no pass is tried: straight to the move loop
MinimaxExpand ==
    /\ Interior
    /\ ~NullMoveTried(Top, Fen(board))
    /\ StartLoop(Top, board)
    /\ nodes' = nodes + 1
    /\ obs' = Observe("expand")
    /\ UNCHANGED << config, best_move, clock, killer, history, call, calls >>

\* a faulty null-move pruning that returns beta with the pass still on the
\* board (line 251 left out); C1 must reject it
NullPruneWithoutPop ==
    /\ Running("minimax", "null_ret")
    /\ Neg(ret) >= Top.beta
    /\ stack' = Rest
    /\ ret' = Top.beta
    /\ obs' = Observe("prune")
    /\ UNCHANGED << config, best_move, clock, nodes, tt, killer, history,
                    board, call, calls >>

\* lines 251-254: the pass is popped; null_value >= beta returns beta
MinimaxNullPrune ==
    /\ Running("minimax", "null_ret")
    /\ Neg(ret) >= Top.beta
    /\ board' = BoardPop(board)
    /\ stack' = Rest
    /\ ret' = Top.beta
    /\ obs' = Observe("prune")
    /\ UNCHANGED << config, best_move, clock, nodes, tt, killer, history, call,
                    calls >>

MinimaxNullFail ==
    /\ Running("minimax", "null_ret")
    /\ ~(Neg(ret) >= Top.beta)
    /\ StartLoop(Top, BoardPop(board))
    /\ obs' = Observe("nullfail")
    /\ UNCHANGED << config, best_move, clock, nodes, killer, history, call, calls >>

\* eval = -self.minimax(...) of the child that has just returned
ChildEval == Neg(ret)

\* lines 268-270: the zero-window result is inside (alpha, beta)
NeedsResearch(f) ==
    f.pc = "zw_ret" /\ f.alpha < ChildEval /\ ChildEval < f.beta

\* the value of the current move is settled
Settled ==
    /\ stack # << >>
    /\ Top.fn = "minimax"
    /\ Top.pc \in {"zw_ret", "full_ret"}
    /\ ~NeedsResearch(Top)

\* lines 275-276 (300-301): max_eval and alpha, or min_eval and beta
ValAfter(f) == IF f.maxi THEN Max(f.val, ChildEval) ELSE Min(f.val, ChildEval)

AlphaAfter(f) == IF f.maxi THEN Max(f.alpha, ChildEval) ELSE f.alpha

BetaAfter(f) == IF f.maxi THEN f.beta ELSE Min(f.beta, ChildEval)

IsCutoff(f) == BetaAfter(f) <= AlphaAfter(f)

\* line 270 (295): the full-window re-search of the move still on the board
MinimaxResearch ==
    /\ Running("minimax", "zw_ret")
    /\ NeedsResearch(Top)
    /\ stack' = Invoke([Top EXCEPT !.pc = "full_ret"],
                       Child(Top, board, Neg(Top.beta), Neg(Top.alpha)))
    /\ obs' = Observe("research")
    /\ UNCHANGED << config, clock, nodes, tt, killer, history, board, ret,
                    best_move, call, calls >>

\* a faulty cutoff that leaves the loop without storing the killer (line 280
\* left out); C13 must reject it
CutoffWithoutKiller ==
    /\ Settled
    /\ IsCutoff(Top)
    /\ board' = BoardPop(board)
    /\ tt' = Store(tt, Top.hash, ValAfter(Top))
    /\ stack' = Rest
    /\ ret' = ValAfter(Top)
    /\ obs' = Observe("cutoff")
    /\ UNCHANGED << config, best_move, clock, nodes, killer, history, call, calls >>

\* lines 278-284 (303-309): beta <= alpha: the killer is stored, the loop is
\* left, the value is cached and returned
MinimaxCutoff ==
    /\ Settled
    /\ IsCutoff(Top)
    /\ LET m == Top.moves[Top.i]
       IN  killer' = Store(killer, << Top.depth, m.from >>, m.to)
    /\ board' = BoardPop(board)
    /\ tt' = Store(tt, Top.hash, ValAfter(Top))
    /\ stack' = Rest
    /\ ret' = ValAfter(Top)
    /\ obs' = Observe("cutoff")
    /\ UNCHANGED << config, best_move, clock, nodes, history, call, calls >>

\* the last move was searched without a cutoff: cache and return
MinimaxLoopEnd ==
    /\ Settled
    /\ ~IsCutoff(Top)
    /\ Top.i = Len(Top.moves)
    /\ board' = BoardPop(board)
    /\ tt' = Store(tt, Top.hash, ValAfter(Top))
    /\ stack' = Rest
    /\ ret' = ValAfter(Top)
    /\ obs' = Observe("end")
    /\ UNCHANGED << config, best_move, clock, nodes, killer, history, call, calls >>

\* lines 261, 268 (288, 293): the next move is pushed and searched with the
\* zero window [-alpha - 1, -alpha]
MinimaxNextMove ==
    /\ Settled
    /\ ~IsCutoff(Top)
    /\ Top.i < Len(Top.moves)
    /\ LET f  == [Top EXCEPT !.pc = "zw_ret", !.i = Top.i + 1,
                             !.val = ValAfter(Top), !.alpha = AlphaAfter(Top),
                             !.beta = BetaAfter(Top)]
           b1 == BoardPush(BoardPop(board), Top.moves[Top.i + 1].nxt)
       IN  /\ board' = b1
           /\ stack' = Invoke(f, Child(f, b1, Minus1(Neg(f.alpha)), Neg(f.alpha)))
    /\ obs' = Observe("next")
    /\ UNCHANGED << config, clock, nodes, tt, killer, history, ret, best_move,
                    call, calls >>

MinimaxStep ==
    \/ MinimaxHit
    \/ MinimaxLeaf
    \/ MinimaxNullMove
    \/ MinimaxExpand
    \/ MinimaxNullPrune
    \/ MinimaxNullFail
    \/ MinimaxResearch
    \/ MinimaxCutoff
    \/ MinimaxLoopEnd
    \/ MinimaxNextMove


\* ------------------------------------------------------------------------
\* iterative_deepening_search(board, depth)
\* ------------------------------------------------------------------------

\* line 209: order_moves raises; the exception leaves
\* iterative_deepening_search and get_move, which do not catch it
IdsRaise ==
    /\ Running("ids", "enter")
    /\ OrderRaises(Fen(board), Top.depth)
    /\ stack' = << >>
    /\ call' = [call EXCEPT !.src = "raise"]
    /\ obs' = Observe("raise")
    /\ UNCHANGED << config, clock, nodes, tt, killer, history, board, ret,
                    best_move, calls >>

\* lines 205-210
IdsEnter ==
    /\ Running("ids", "enter")
    /\ ~OrderRaises(Fen(board), Top.depth)
    /\ stack' = Replace([Top EXCEPT
                   !.pc = "loop", !.best = NoMove, !.alpha = 0 - Inf, !.beta = Inf,
                   !.moves = OrderMoves(variant, Fen(board), killer, history, Top.depth),
                   !.i = 1])
    /\ obs' = Observe("ids")
    /\ UNCHANGED << config, clock, nodes, tt, killer, history, board, ret,
                    best_move, call, calls >>

\* line 212: the root moves are exhausted; line 229
IdsExhausted ==
    /\ Running("ids", "loop")
    /\ Top.i > Len(Top.moves)
    /\ stack' = Rest
    /\ best_move' = Top.best
    /\ call' = [call EXCEPT !.value = Top.alpha]
    /\ obs' = Observe("ids_end")
    /\ UNCHANGED << config, ret, clock, nodes, tt, killer, history, board, calls >>

\* lines 213-214: time is up before the next root move
IdsTimeUp ==
    /\ Running("ids", "loop")
    /\ Top.i <= Len(Top.moves)
    /\ TRUE \in Polls
    /\ clock' = "up"
    /\ stack' = Rest
    /\ best_move' = Top.best
    /\ call' = [call EXCEPT !.value = Top.alpha]
    /\ obs' = Observe("ids_break")
    /\ UNCHANGED << config, ret, nodes, tt, killer, history, board, calls >>

\* lines 216-217: the root move is pushed and searched
IdsEvaluate ==
    /\ Running("ids", "loop")
    /\ Top.i <= Len(Top.moves)
    /\ FALSE \in Polls
    /\ LET b1 == BoardPush(board, Top.moves[Top.i].nxt)
       IN  /\ board' = b1
           /\ stack' = Invoke([Top EXCEPT !.pc = "child_ret"],
                              Frame("minimax", Top.depth - 1, Neg(Top.beta),
                                    Neg(Top.alpha), FALSE, b1))
    /\ obs' = Observe("ids_push")
    /\ UNCHANGED << config, clock, nodes, tt, killer, history, ret, best_move,
                    call, calls >>

\* lines 220-222: value > alpha makes the move the best one
IdsBestAfter(f) == IF Neg(ret) > f.alpha THEN f.moves[f.i] ELSE f.best

IdsAlphaAfter(f) == IF Neg(ret) > f.alpha THEN Neg(ret) ELSE f.alpha

\* a faulty history update that scores a root move only when it has just
\* become the best one (lines 225-227 moved under line 220); C14 must reject it
HistoryOnImprovement(hs, f) ==
    IF Neg(ret) > f.alpha
    THEN LET key == << f.moves[f.i].from, f.moves[f.i].to >>
             old == IF key \in DOMAIN hs THEN hs[key] ELSE 0
         IN  Store(hs, key, old + f.depth * f.depth)
    ELSE hs

\* lines 225-227: the history score of the best move so far grows by depth^2
HistoryAfter(hs, f) ==
    LET best == IdsBestAfter(f)
    IN  IF best # NoMove
        THEN LET key == << best.from, best.to >>
                 old == IF key \in DOMAIN hs THEN hs[key] ELSE 0
             IN  Store(hs, key, old + f.depth * f.depth)
        ELSE hs

\* a faulty root loop that leaves the root move on the board (line 218 left
\* out); C2 must reject it
ChildReturnWithoutPop ==
    /\ Running("ids", "child_ret")
    /\ stack' = Replace([Top EXCEPT !.pc = "loop", !.i = Top.i + 1,
                                    !.best = IdsBestAfter(Top),
                                    !.alpha = IdsAlphaAfter(Top)])
    /\ history' = HistoryAfter(history, Top)
    /\ call' = [call EXCEPT !.evals = call.evals + 1]
    /\ obs' = Observe("ids_pop")
    /\ UNCHANGED << config, clock, nodes, tt, killer, board, ret, best_move,
                    calls >>

\* lines 218-227
IdsChildReturn ==
    /\ Running("ids", "child_ret")
    /\ board' = BoardPop(board)
    /\ stack' = Replace([Top EXCEPT !.pc = "loop", !.i = Top.i + 1,
                                    !.best = IdsBestAfter(Top),
                                    !.alpha = IdsAlphaAfter(Top)])
    /\ history' = HistoryAfter(history, Top)
    /\ call' = [call EXCEPT !.evals = call.evals + 1]
    /\ obs' = Observe("ids_pop")
    /\ UNCHANGED << config, clock, nodes, tt, killer, ret, best_move, calls >>

IdsStep ==
    \/ IdsRaise
    \/ IdsEnter
    \/ IdsExhausted
    \/ IdsTimeUp
    \/ IdsEvaluate
    \/ IdsChildReturn

\* ------------------------------------------------------------------------
\* The opening book (chess.polyglot, outside the repository): the entries
\* reader.find_all(board) yields, each a legal move of the position with a
\* positive weight.
\* ------------------------------------------------------------------------

Entry(m, w) == [move |-> m, weight |-> w]

BookEntries(v, p) ==
    CASE p = 1 /\ v \in {1, 4} -> << Entry(LegalMoves(1)[1], 3), Entry(LegalMoves(1)[2], 1) >>
      [] p = 1 /\ v = 3        -> << Entry(LegalMoves(1)[2], 7000), Entry(LegalMoves(1)[1], 5000) >>
      [] p = 4 /\ v \in {1, 4} -> << Entry(LegalMoves(4)[2], 2), Entry(LegalMoves(4)[1], 2) >>
      [] OTHER -> << >>

\* board.fullmove_number: it starts at 1 (at 19 in variant 4) and grows after
\* each move of Black
Ply(p) ==
    CASE p = 1 -> 0
      [] p \in {2, 3, 12} -> 1
      [] p \in {4, 5, 6, 13, 14} -> 2
      [] p \in {7, 8, 9, 10, 11, 15, 16, 17} -> 3
      [] p = 18 -> 4

FullmoveNumber(v, p) == (IF v = 4 THEN 19 ELSE 1) + Ply(p) \div 2

RECURSIVE SumWeights(_)
SumWeights(es) ==
    IF es = << >> THEN 0 ELSE es[1].weight + SumWeights(Tail(es))

\* a faulty probability without the decay over the first 20 moves; C8 must
\* reject it
ProbabilityWithoutDecay(fullmove, total_weight) == 20 * Min(10000, total_weight)

\* get_book_move_probability, as a number of 200000ths:
\* max(0, 1 - n/20) * min(1, total/10000) = max(0, 20 - n) * min(10000, total) / 200000
BookMoveProbability(fullmove, total_weight) ==
    Max(0, 20 - fullmove) * Min(10000, total_weight)

\* self.book_randomness, in tenths (the default 0.1)
BookRandomness == 1

\* a faulty scan that stops as soon as the cumulative weight reaches the
\* draw (>= for > in line 179); C7 must reject it
RECURSIVE ScanFromInclusive(_, _, _, _)
ScanFromInclusive(es, k, current_weight, choice) ==
    IF k > Len(es) THEN 0
    ELSE IF current_weight + es[k].weight >= choice THEN k
         ELSE ScanFromInclusive(es, k + 1, current_weight + es[k].weight, choice)

\* lines 176-181: the first entry whose cumulative weight exceeds the draw;
\* 0 if the scan ends without one
RECURSIVE ScanFrom(_, _, _, _)
ScanFrom(es, k, current_weight, choice) ==
    IF k > Len(es) THEN 0
    ELSE IF current_weight + es[k].weight > choice THEN k
         ELSE ScanFrom(es, k + 1, current_weight + es[k].weight, choice)

BookScan(es, choice) == ScanFrom(es, 1, 0, choice)

\* the draws of random.random(), as 200000ths and as tenths
FirstDraws == {0, 100, 199999}

SecondDraws == {0, 1, 5}

\* the cumulative weight of the first k entries
RECURSIVE CumWeight(_, _)
CumWeight(es, k) == IF k = 0 THEN 0 ELSE CumWeight(es, k - 1) + es[k].weight

\* the draws of random.randint(0, total - 1): all of them up to MaxDraw, else
\* the two ends and the draws next to each boundary between entries
MaxDraw == 8

ChoiceDraws(es) ==
    LET total == SumWeights(es)
    IN  IF total <= MaxDraw THEN 0 .. (total - 1)
        ELSE {c \in {0, total - 1}
                     \cup {CumWeight(es, k) - 1 : k \in 1 .. Len(es)}
                     \cup {CumWeight(es, k) : k \in 1 .. Len(es)} : c < total}

\* line 173: the two draws let the book be used
GateOpen(r1, r2, prob) == r1 < prob /\ r2 > BookRandomness

\* why the book stage of get_move does not return a move, or "use"
BookOutcome(exists, err, es, r1, r2, prob) ==
    IF ~use_book THEN "disabled"
    ELSE IF ~exists THEN "absent"
    ELSE IF err THEN "error"
    ELSE IF es = << >> THEN "empty"
    ELSE IF ~GateOpen(r1, r2, prob) THEN "reject"
    ELSE "use"


\* ------------------------------------------------------------------------
\* get_move(board)
\* ------------------------------------------------------------------------

\* the record of an API call: the function, the board and arguments it was
\* given, whether the book or the search answered, the root moves evaluated,
\* the iterations run, and the value of the best root move of the last one
NoCall == [fn |-> "none", board |-> << >>, src |-> "none", args |-> << >>,
           evals |-> 0, iters |-> << >>, value |-> 0]

NewCall(fn, src, args) ==
    [fn |-> fn, board |-> board, src |-> src, args |-> args, evals |-> 0,
     iters |-> << >>, value |-> 0]

\* no engine came before this one
NoPrev == [call |-> NoCall, ret |-> 0, calls |-> 0]

Idle == stack = << >> /\ calls < MaxCalls

\* lines 162-181: the book is used and its move is returned
GetMoveBook ==
    /\ Idle
    /\ LET es   == BookEntries(variant, Fen(board))
           prob == BookMoveProbability(FullmoveNumber(variant, Fen(board)),
                                       SumWeights(es))
       IN  \E exists, err \in BOOLEAN, r1 \in FirstDraws, r2 \in SecondDraws :
              /\ BookOutcome(exists, err, es, r1, r2, prob) = "use"
              /\ \E c \in ChoiceDraws(es) :
                    /\ BookScan(es, c) # 0
                    /\ best_move' = es[BookScan(es, c)].move
                    /\ obs' = ObserveWith("book", [why |-> "use", r1 |-> r1,
                                  r2 |-> r2, prob |-> prob, choice |-> c])
    /\ call' = NewCall("get_move", "book", << >>)
    /\ calls' = calls + 1
    /\ UNCHANGED << config, ret, clock, nodes, tt, killer, history, board, stack >>

\* a faulty book stage in which an error of the lookup is not caught by
\* line 184 and ends get_move without a search; C9 must reject it
SearchUnlessBookRaises ==
    /\ Idle
    /\ LET es   == BookEntries(variant, Fen(board))
           prob == BookMoveProbability(FullmoveNumber(variant, Fen(board)),
                                       SumWeights(es))
       IN  \E exists, err \in BOOLEAN, r1 \in FirstDraws, r2 \in SecondDraws :
              LET why == BookOutcome(exists, err, es, r1, r2, prob)
              IN  /\ why # "use"
                  /\ obs' = ObserveWith("book", [why |-> why])
                  /\ stack' = IF why = "error" THEN << >>
                              ELSE << [Frame("get_move", 1, 0, 0, FALSE, board)
                                         EXCEPT !.pc = "loop"] >>
                  /\ best_move' = IF why = "error" THEN NoMove ELSE best_move
    /\ clock' = "run"
    /\ nodes' = 0
    /\ call' = NewCall("get_move", "search", << >>)
    /\ calls' = calls + 1
    /\ UNCHANGED << config, ret, tt, killer, history, board >>

\* lines 162-190: the book is not used (disabled, no file, an error, no
\* entry, or the draws reject it); the search starts
GetMoveSearch ==
    /\ Idle
    /\ LET es   == BookEntries(variant, Fen(board))
           prob == BookMoveProbability(FullmoveNumber(variant, Fen(board)),
                                       SumWeights(es))
       IN  \E exists, err \in BOOLEAN, r1 \in FirstDraws, r2 \in SecondDraws :
              /\ BookOutcome(exists, err, es, r1, r2, prob) # "use"
              /\ obs' = ObserveWith("book",
                            [why |-> BookOutcome(exists, err, es, r1, r2, prob)])
    /\ clock' = "run"
    /\ nodes' = 0
    /\ stack' = << [Frame("get_move", 1, 0, 0, FALSE, board) EXCEPT !.pc = "loop"] >>
    /\ call' = NewCall("get_move", "search", << >>)
    /\ calls' = calls + 1
    /\ UNCHANGED << config, tt, killer, history, board, ret, best_move >>

\* line 193: the depths are exhausted; line 201
GetMoveDone ==
    /\ Running("get_move", "loop")
    /\ Top.depth > max_depth
    /\ stack' = Rest
    /\ best_move' = Top.best
    /\ obs' = Observe("gm_end")
    /\ UNCHANGED << config, ret, clock, nodes, tt, killer, history, board,
                    call, calls >>

\* lines 194-195: time is up before the next depth
GetMoveTimeUp ==
    /\ Running("get_move", "loop")
    /\ Top.depth <= max_depth
    /\ TRUE \in Polls
    /\ clock' = "up"
    /\ stack' = Rest
    /\ best_move' = Top.best
    /\ obs' = Observe("gm_break")
    /\ UNCHANGED << config, ret, nodes, tt, killer, history, board, call, calls >>

\* a faulty loop head that starts the next iteration without looking at the
\* clock (lines 194-195 left out); C17 must reject it
IterateWithoutTimeCheck ==
    /\ Running("get_move", "loop")
    /\ Top.depth <= max_depth
    /\ stack' = Invoke([Top EXCEPT !.pc = "ids_ret"],
                       Frame("ids", Top.depth, 0, 0, FALSE, board))
    /\ obs' = Observe("gm_iter")
    /\ UNCHANGED << config, clock, nodes, tt, killer, history, board, ret,
                    best_move, call, calls >>

\* line 197
GetMoveIterate ==
    /\ Running("get_move", "loop")
    /\ Top.depth <= max_depth
    /\ FALSE \in Polls
    /\ stack' = Invoke([Top EXCEPT !.pc = "ids_ret"],
                       Frame("ids", Top.depth, 0, 0, FALSE, board))
    /\ obs' = Observe("gm_iter")
    /\ UNCHANGED << config, clock, nodes, tt, killer, history, board, ret,
                    best_move, call, calls >>

\* a faulty line 198 that keeps the move of an iteration whatever the clock
\* says; C3 must reject it
KeepMoveIgnoringClock(move, up) == move # NoMove

\* lines 198-199: the move of the iteration is kept if there is one and time
\* is not up (the clock is read only if there is one)
KeepMove(move, up) == move # NoMove /\ ~up

GetMoveIdsReturn ==
    /\ Running("get_move", "ids_ret")
    /\ \E up \in (IF best_move = NoMove THEN {FALSE} ELSE Polls) :
          /\ clock' = ClockAfter(up)
          /\ stack' = Replace([Top EXCEPT
                         !.pc = "loop", !.depth = Top.depth + 1,
                         !.best = IF KeepMove(best_move, up) THEN best_move ELSE Top.best])
          /\ call' = [call EXCEPT !.iters =
                         Append(call.iters, [depth |-> Top.depth, move |-> best_move,
                                             late |-> ~unlimited /\ ClockAfter(up) = "up"])]
    /\ obs' = Observe("gm_ret")
    /\ UNCHANGED << config, nodes, tt, killer, history, board, ret, best_move,
                    calls >>

GetMoveStep ==
    \/ GetMoveBook
    \/ GetMoveSearch
    \/ GetMoveDone
    \/ GetMoveTimeUp
    \/ GetMoveIterate
    \/ GetMoveIdsReturn

\* ------------------------------------------------------------------------
\* The callers of the engine
\* ------------------------------------------------------------------------

\* the windows a caller hands minimax directly
Windows == { << 0 - Inf, Inf >>, << -300, 200 >> }

\* the depths of a direct call: the engine's depth or MaxCallDepth, none of
\* them a depth order_moves raises at
CallDepths == {d \in {max_depth, MaxCallDepth} : d <= MaxCallDepth}

\* minimax called on the board as it stands; an engine that replaced another
\* is given the call the other was given
CallMinimax ==
    /\ Idle
    /\ \E d \in CallDepths, w \in Windows, mx \in BOOLEAN :
          /\ prev # NoPrev => << d, w[1], w[2], mx >> = prev.call.args
          /\ stack' = << Frame("minimax", d, w[1], w[2], mx, board) >>
          /\ call' = NewCall("minimax", "search", << d, w[1], w[2], mx >>)
    /\ calls' = calls + 1
    /\ obs' = Observe("call")
    /\ UNCHANGED << config, clock, nodes, tt, killer, history, board, ret,
                    best_move >>

\* a move is played on the board between two calls (board.push in the game
\* loop), as long as the engine is the first one
PlayMove ==
    /\ Idle
    /\ prev = NoPrev
    /\ \E k \in 1 .. Len(LegalMoves(Fen(board))) :
          board' = BoardPush(board, LegalMoves(Fen(board))[k].nxt)
    /\ obs' = Observe("play")
    /\ UNCHANGED << config, clock, nodes, tt, killer, history, stack, ret,
                    best_move, call, calls >>

\* the depths an engine is constructed with: the shallow ones, and the
\* first that has no row in the killer table
Depths == 0 .. MaxDepth \cup {KillerRows}

\* the engine of depth KillerRows is given no book and no time limit
Init ==
    /\ variant \in 1 .. NVariants
    /\ max_depth \in Depths
    /\ use_book \in BOOLEAN
    /\ unlimited \in BOOLEAN
    /\ max_depth > MaxDepth => (~use_book /\ unlimited)
    /\ clock = "up"
    /\ nodes = 0
    /\ tt = EmptyDict
    /\ killer = EmptyDict
    /\ history = EmptyDict
    /\ board = << 1 >>
    /\ stack = << >>
    /\ ret = 0
    /\ best_move = NoMove
    /\ call = NoCall
    /\ calls = 0
    /\ obs = Observe("init")
    /\ rev = {}
    /\ prev = NoPrev
    /\ position = BoardAt(variant, 1)

Next ==
    \/ GetMoveStep
    \/ IdsStep
    \/ MinimaxStep
    \/ CallMinimax
    \/ PlayMove

Spec == Init /\ [][Next]_vars

\* ------------------------------------------------------------------------
\* The calls of one engine on the start position, run to their end.  An
\* engine of a shallow depth has a finite time limit and the book enabled:
\* each poll of the clock may answer that time is not up, so the behaviours
\* in which the clock never expires are among these, and the book may or may
\* not answer.
\* A call in progress takes its next step: the interpreter runs the one
\* thread of the engine until the call returns.  Every such step changes the
\* call stack.
\* ------------------------------------------------------------------------

InitLive == Init /\ (max_depth <= MaxDepth => (use_book /\ ~unlimited))

NextLive ==
    \/ GetMoveStep
    \/ IdsStep
    \/ MinimaxStep
    \/ CallMinimax

Run == stack # << >> /\ (GetMoveStep \/ IdsStep \/ MinimaxStep)

SpecLive == InitLive /\ [][NextLive]_vars /\ WF_stack(Run)


\* ------------------------------------------------------------------------
\* Two engines on one position: minimax is called on a new engine, then the
\* engine is replaced by a new one (__init__) whose rules engine enumerates
\* the legal moves of some positions in the reverse order, and minimax is
\* called again.
\* ------------------------------------------------------------------------

\* the positions with two legal moves or more
Branching == {p \in Positions : Len(LegalMoves(p)) >= 2}

\* __init__ (lines 40-61): empty tables, no node counted, start_time = 0
NewEngine ==
    /\ stack = << >>
    /\ call.fn = "minimax"
    /\ calls = 1
    /\ board = call.board
    /\ prev = NoPrev
    /\ prev' = [call |-> call, ret |-> ret, calls |-> calls]
    /\ \E R \in SUBSET Branching : R # {} /\ rev' = R
    /\ tt' = EmptyDict
    /\ killer' = EmptyDict
    /\ history' = EmptyDict
    /\ nodes' = 0
    /\ clock' = "up"
    /\ call' = NoCall
    /\ obs' = Observe("new")
    /\ UNCHANGED << variant, max_depth, use_book, unlimited, position, board,
                    stack, ret, best_move, calls >>

InitOrder ==
    /\ Init
    /\ max_depth \in 1 .. MaxDepth
    /\ ~use_book
    /\ unlimited

NextOrder ==
    \/ CallMinimax
    \/ MinimaxStep
    \/ PlayMove
    \/ NewEngine

SpecOrder == InitOrder /\ [][NextOrder]_vars


\* ------------------------------------------------------------------------
\* evaluate_position called on its own, on boards of two kings and any of
\* the pieces of a catalogue, either side to move, with 0 to MaxMobility
\* legal moves, in check or not
\* ------------------------------------------------------------------------

MaxMobility == 2

Catalogue == { Pc("P", WHITE, 28), Pc("P", BLACK, 51), Pc("N", BLACK, 18),
               Pc("B", WHITE, 26), Pc("Q", WHITE, 3) }

EvalBoards ==
    { [turn |-> t, pieces |-> {Pc("K", WHITE, 4), Pc("K", BLACK, 60)} \cup S,
       mob |-> m, check |-> c] :
         t \in BOOLEAN, S \in SUBSET Catalogue, m \in 0 .. MaxMobility,
         c \in BOOLEAN }

InitEval ==
    /\ variant = 1
    /\ max_depth = MaxDepth
    /\ use_book = FALSE
    /\ unlimited = FALSE
    /\ clock = "up"
    /\ nodes = 0
    /\ tt = EmptyDict
    /\ killer = EmptyDict
    /\ history = EmptyDict
    /\ board = << 1 >>
    /\ stack = << >>
    /\ ret = 0
    /\ best_move = NoMove
    /\ call = NoCall
    /\ calls = 0
    /\ obs = Observe("init")
    /\ rev = {}
    /\ prev = NoPrev
    /\ position \in EvalBoards

\* evaluate_position(board) (lines 311-352): the board and the engine are
\* read, nothing is written
Evaluate ==
    /\ stack = << >>
    /\ ret' = EvaluatePosition(position)
    /\ obs' = Observe("evaluate")
    /\ UNCHANGED << config, best_move, clock, nodes, tt, killer, history, board,
                    stack, call, calls >>

NextEval == Evaluate

SpecEval == InitEval /\ [][NextEval]_vars


\* ------------------------------------------------------------------------
\* C1  Undo symmetry.  Every frame of minimax, iterative_deepening_search and
\* get_move that returns leaves the board exactly as the frame received it
\* (the same positions, so the same fen and the same move-stack length), on
\* every exit path; and when get_move has returned, by the book or by the
\* search, the board is the one it was called on.
\* ------------------------------------------------------------------------

C1_UndoSymmetry ==
    [][ /\ (stack # << >> /\ stack' = Rest) => board' = Top.entry
        /\ (calls' = calls + 1) => board' = board
        /\ (stack # << >> /\ stack' = << >> /\ call.fn = "get_move")
              => board' = call.board ]_vars

\* get_move has searched two root moves or more, time ran out, and it has
\* returned with the board it was called on
C1_Witness ==
    /\ stack = << >>
    /\ call.fn = "get_move"
    /\ call.src = "search"
    /\ call.evals >= 2
    /\ clock = "up"
    /\ obs.ev \in {"gm_end", "gm_break"}
    /\ board = call.board

\* ------------------------------------------------------------------------
\* C2  The result of get_move is none or a legal move of the position it was
\* called on, from the book or from the search; it is none when the position
\* has no legal move.
\* ------------------------------------------------------------------------

LegalSet(p) == {LegalMoves(p)[k] : k \in 1 .. Len(LegalMoves(p))}

GetMoveReturned == stack = << >> /\ call.fn = "get_move" /\ call.src # "raise"

C2_LegalOrNone ==
    GetMoveReturned =>
        /\ best_move = NoMove \/ best_move \in LegalSet(Fen(call.board))
        /\ LegalSet(Fen(call.board)) = {} => best_move = NoMove

\* the search has returned a legal move of a position reached by play
C2_Witness ==
    /\ GetMoveReturned
    /\ call.src = "search"
    /\ Len(call.board) > 1
    /\ best_move \in LegalSet(Fen(call.board))

\* ------------------------------------------------------------------------
\* C3  (as amended)  get_move returns the move of the deepest iteration that
\* returned a move with the time not yet up at the test that follows it
\* (line 198); an iteration during which the time runs out is discarded, and
\* the result is none when there is no such iteration.
\* ------------------------------------------------------------------------

\* the move of the last iteration of the log that was in time, if any
RECURSIVE LastInTime(_)
LastInTime(log) ==
    IF log = << >> THEN NoMove
    ELSE LET e == log[Len(log)]
         IN  IF e.move # NoMove /\ ~e.late THEN e.move
             ELSE LastInTime(SubSeq(log, 1, Len(log) - 1))

SearchReturned == GetMoveReturned /\ call.src = "search"

RECURSIVE Negamax(_, _, _)
Negamax(v, p, d) ==
    IF d = 0 \/ GameOver(p) THEN EvaluatePosition(BoardAt(v, p))
    ELSE LET ms   == LegalMoves(p)
             vals == {Neg(Negamax(v, ms[k].nxt, d - 1)) : k \in 1 .. Len(ms)}
         IN  CHOOSE x \in vals : \A y \in vals : x >= y

\* the exhaustive value of move m for the side that plays it, d plies deep
MoveValue(v, m, d) == Neg(Negamax(v, m.nxt, d - 1))

FirstSearchReturned ==
    /\ SearchReturned
    /\ calls = 1
    /\ unlimited
    /\ best_move # NoMove

C4_AlphaBetaEquivalence ==
    FirstSearchReturned => call.value = MoveValue(variant, best_move, max_depth)

\* ------------------------------------------------------------------------
\* C5  evaluate_position scores from the side to move: the colour-mirrored
\* position with the other side to move has the same score, and a checkmate
\* scores -20000 whichever side is mated.
\* ------------------------------------------------------------------------

\* the position with the colours swapped and the board flipped
Mirror(b) ==
    [turn   |-> ~b.turn,
     pieces |-> {Pc(pc.t, ~pc.c, SquareMirror(pc.sq)) : pc \in b.pieces},
     mob    |-> b.mob,
     check  |-> b.check]

Evaluated == obs.ev = "evaluate"

C5_SideToMove ==
    Evaluated =>
        /\ ret = EvaluatePosition(Mirror(position))
        /\ IsCheckmate(position) => ret = -20000

\* ------------------------------------------------------------------------
\* C6  Move-ordering independence.  Two new engines are given the same call
\* of minimax on the same position with no time limit; the rules engine of
\* the second enumerates the legal moves of some positions in the reverse
\* order, so that order_moves presents equally scored moves in another
\* order.  Both calls return the same score.
\* ------------------------------------------------------------------------

SecondEngineReturned ==
    /\ stack = << >>
    /\ prev # NoPrev
    /\ call.fn = "minimax"
    /\ call.args = prev.call.args
    /\ call.board = prev.call.board

C6_OrderIndependence == SecondEngineReturned => ret = prev.ret


\* ------------------------------------------------------------------------
\* C7  Opening-book weighted selection.  When get_move answers from the
\* book with the draw c, the move is that of the one entry k with
\* w_1 + .. + w_(k-1) <= c < w_1 + .. + w_k; over the draws 0 .. total - 1
\* exactly w_k of them select entry k, and none falls through the scan.
\* ------------------------------------------------------------------------

BookAnswered == stack = << >> /\ call.src = "book" /\ obs.ev = "book"

\* the entries of the position get_move was called on
CallEntries == BookEntries(variant, Fen(call.board))

C7_WeightedScan ==
    BookAnswered =>
        LET es    == CallEntries
            total == SumWeights(es)
            c     == obs.info.choice
            k     == BookScan(es, c)
        IN  /\ c \in 0 .. (total - 1)
            /\ k \in 1 .. Len(es)
            /\ CumWeight(es, k - 1) <= c
            /\ c < CumWeight(es, k)
            /\ \A j \in 1 .. Len(es) :
                  (CumWeight(es, j - 1) <= c /\ c < CumWeight(es, j)) => j = k
            /\ best_move = es[k].move
            /\ \A j \in 1 .. Len(es) :
                  Cardinality({d \in 0 .. (total - 1) : BookScan(es, d) = j})
                     = es[j].weight
            /\ \A d \in 0 .. (total - 1) : BookScan(es, d) # 0

\* the book answered with its second entry, on the first draw that selects it
C7_Witness ==
    /\ BookAnswered
    /\ Len(CallEntries) = 2
    /\ obs.info.choice = CallEntries[1].weight
    /\ best_move = CallEntries[2].move

\* ------------------------------------------------------------------------
\* C8  Opening-book gating.  get_move answers from the book only if the
\* book is enabled, the position has an entry, the first draw is below
\* use_probability and the second is above book_randomness, where
\* use_probability = max(0, 1 - fullmove/20) * min(1, total/10000) is in
\* [0, 1]; from full move 20 on every get_move runs the search.
\* ------------------------------------------------------------------------

\* use_probability of the position get_move was called on, in 200000ths
CallProbability ==
    LET n     == FullmoveNumber(variant, Fen(call.board))
        total == SumWeights(CallEntries)
    IN  (IF n >= 20 THEN 0 ELSE 20 - n) * (IF total >= 10000 THEN 10000 ELSE total)

C8_BookGating ==
    /\ BookAnswered =>
          /\ use_book
          /\ CallEntries # << >>
          /\ obs.info.prob = CallProbability
          /\ obs.info.r1 < CallProbability
          /\ obs.info.r2 > BookRandomness
    /\ call.fn = "get_move" =>
          /\ CallProbability \in 0 .. 200000
          /\ BookMoveProbability(FullmoveNumber(variant, Fen(call.board)),
                                 SumWeights(CallEntries)) = CallProbability
          /\ FullmoveNumber(variant, Fen(call.board)) >= 20 =>
                call.src \in {"search", "raise"}

\* the book answered at full move 19, on a position whose book entries are
\* passed over at full move 20
C8_Witness ==
    /\ BookAnswered
    /\ FullmoveNumber(variant, Fen(call.board)) = 19
    /\ obs.info.prob > 0
    /\ obs.info.r2 > BookRandomness

\* ------------------------------------------------------------------------
\* C9  Book failure is never fatal.  When the book is disabled, its file is
\* absent, the lookup raises, the position has no entry or the draws reject
\* the book, get_move starts the iterative-deepening loop with the board and
\* the transposition, killer and history tables as they were, and what it
\* returns is what that loop has kept.
\* ------------------------------------------------------------------------

BookFailures == {"disabled", "absent", "error", "empty", "reject"}

C9_BookFailureNotFatal ==
    [][ /\ (calls' = calls + 1 /\ call'.fn = "get_move") =>
              /\ obs'.info.why \in BookFailures \cup {"use"}
              /\ ~use_book => obs'.info.why = "disabled"
              /\ CallEntries' = << >> => obs'.info.why # "use"
              /\ obs'.info.why \in BookFailures =>
                    /\ call'.src = "search"
                    /\ Len(stack') = 1
                    /\ stack'[1].fn = "get_move"
                    /\ stack'[1].pc = "loop"
                    /\ stack'[1].depth = 1
                    /\ stack'[1].best = NoMove
                    /\ board' = board
                    /\ tt' = tt
                    /\ killer' = killer
                    /\ history' = history
        /\ (Len(stack) = 1 /\ Top.fn = "get_move" /\ stack' = << >>) =>
              /\ call.src = "search"
              /\ best_move' = Top.best
              /\ best_move' = LastInTime(call.iters) ]_vars

\* the lookup raised and the search has started
C9_Witness ==
    /\ obs.ev = "book"
    /\ obs.info.why = "error"
    /\ Running("get_move", "loop")
    /\ call.src = "search"

\* ------------------------------------------------------------------------
\* C10  Transposition probe.  A call of minimax on a position whose fen is a
\* key of the transposition table returns the stored value at once, whatever
\* the depth, the window, the maximizing flag and the clock: no node is
\* counted, no move is pushed, no table changes.
\* ------------------------------------------------------------------------

C10_TranspositionProbe ==
    [][ (Running("minimax", "enter") /\ Fen(board) \in DOMAIN tt) =>
           /\ stack' = Rest
           /\ ret' = tt[Fen(board)]
           /\ nodes' = nodes
           /\ board' = board
           /\ tt' = tt
           /\ killer' = killer
           /\ history' = history
           /\ clock' = clock ]_vars

\* a hit at depth 1 or more, with a finite window, after the time ran out
C10_Witness ==
    /\ obs.ev = "hit"
    /\ obs.info.depth >= 1
    /\ obs.info.beta # Inf
    /\ ~unlimited
    /\ clock = "up"
    /\ ret = tt[Fen(board)]


\* ------------------------------------------------------------------------
\* C11  Null-move pruning.  At a node that is neither a transposition hit
\* nor a leaf, a pass is tried exactly when depth >= 3, the side to move is
\* not in check and owns a piece other than king and pawn: the pass is
\* pushed and searched at depth - 3 with the window [-beta, -beta + 1] and
\* the flag toggled.  When the search of the pass returns the pass is popped;
\* if the negated result is >= beta the node returns beta with the board
\* restored, no move examined and no table entry stored, else the ordered
\* move loop starts.
\* ------------------------------------------------------------------------

\* the side to move of the current position owns a piece that is neither
\* king nor pawn
OwnsMajor ==
    \E pc \in BasePieces(Fen(board)) \cup Extra(variant, Fen(board)) :
        pc.c = Turn(Fen(board)) /\ pc.t \in {"N", "B", "R", "Q"}

\* the step goes down from the entry of a minimax frame: the node is
\* neither a hit nor a leaf
GoesDown == Running("minimax", "enter") /\ Len(stack') = Len(stack) + 1

Caller == stack'[Len(stack)]

\* the step calls a child from a minimax frame
CallsChild ==
    /\ stack # << >>
    /\ Top.fn = "minimax"
    /\ Len(stack') = Len(stack) + 1
    /\ Caller.pc \in {"full_ret", "zw_ret"}

C12_PrincipalVariation ==
    [][ /\ CallsChild =>
              /\ Top'.fn = "minimax"
              /\ Top'.pc = "enter"
              /\ Top'.depth = Top.depth - 1
              /\ Top'.maxi = ~Top.maxi
              /\ Top'.entry = board'
              /\ Caller.maxi = Top.maxi
              /\ Caller.depth = Top.depth
        \* the first move
        /\ (CallsChild /\ Top.pc \in {"enter", "null_ret"}) =>
              /\ Caller.i = 1
              /\ Caller.pc = "full_ret"
              /\ Caller.alpha = Top.alpha
              /\ Caller.beta = Top.beta
              /\ Top'.alpha = Neg(Top.beta)
              /\ Top'.beta = Neg(Top.alpha)
              /\ board' = Append(Top.entry, Caller.moves[1].nxt)
        \* a move has been searched with the zero window
        /\ (stack # << >> /\ Top.fn = "minimax" /\ Top.pc = "zw_ret") =>
              ((Top.alpha < Neg(ret) /\ Neg(ret) < Top.beta)
                 <=> (CallsChild /\ board' = board /\ Caller.i = Top.i))
        \* the re-search
        /\ (CallsChild /\ Top.pc \in {"zw_ret", "full_ret"} /\ Caller.i = Top.i) =>
              /\ Top.pc = "zw_ret"
              /\ Caller.pc = "full_ret"
              /\ board' = board
              /\ Caller.alpha = Top.alpha
              /\ Caller.beta = Top.beta
              /\ Top'.alpha = Neg(Top.beta)
              /\ Top'.beta = Neg(Top.alpha)
        \* a later move
        /\ (CallsChild /\ Top.pc \in {"zw_ret", "full_ret"} /\ Caller.i # Top.i) =>
              /\ Caller.i = Top.i + 1
              /\ Caller.pc = "zw_ret"
              /\ Caller.val = (IF Top.maxi THEN Max(Top.val, Neg(ret))
                                          ELSE Min(Top.val, Neg(ret)))
              /\ Caller.alpha = (IF Top.maxi THEN Max(Top.alpha, Neg(ret))
                                            ELSE Top.alpha)
              /\ Caller.beta = (IF Top.maxi THEN Top.beta
                                           ELSE Min(Top.beta, Neg(ret)))
              /\ Top'.alpha = Minus1(Neg(Caller.alpha))
              /\ Top'.beta = Neg(Caller.alpha)
              /\ board' = Append(Top.entry, Top.moves[Top.i + 1].nxt)
      ]_vars

\* a minimizing node re-searches its second move with the full window
C12_Witness ==
    /\ obs.ev = "research"
    /\ Len(stack) >= 2
    /\ ~stack[Len(stack) - 1].maxi
    /\ stack[Len(stack) - 1].i = 2
    /\ Top.alpha = Neg(stack[Len(stack) - 1].beta)
    /\ Top.beta = Neg(stack[Len(stack) - 1].alpha)


\* ------------------------------------------------------------------------
\* C13  Cutoff bookkeeping.  After each move of an interior node the bound
\* is updated (alpha with max when maximizing, beta with min when
\* minimizing); if then beta <= alpha the killer slot (depth of the node,
\* source square of the move) is set to the destination square and the node
\* returns without another move; if not, the killer table is left alone and
\* the next move is searched, the node returning only after its last legal
\* move.  No other step writes the killer table.
\* ------------------------------------------------------------------------

\* a move of the top frame has its value: no search of it is left to do
MoveDone ==
    /\ stack # << >>
    /\ Top.fn = "minimax"
    /\ \/ Top.pc = "full_ret"
       \/ Top.pc = "zw_ret" /\ ~(Top.alpha < Neg(ret) /\ Neg(ret) < Top.beta)

\* the bounds of the top frame cross once updated with the value of the move
BoundsCross ==
    IF Top.maxi THEN Top.beta <= Max(Top.alpha, Neg(ret))
                ELSE Min(Top.beta, Neg(ret)) <= Top.alpha

C13_CutoffBookkeeping ==
    [][ /\ (MoveDone /\ BoundsCross) =>
              /\ stack' = Rest
              /\ << Top.depth, Top.moves[Top.i].from >> \in DOMAIN killer'
              /\ killer'[<< Top.depth, Top.moves[Top.i].from >>] = Top.moves[Top.i].to
              /\ \A k \in DOMAIN killer' :
                    k # << Top.depth, Top.moves[Top.i].from >> =>
                        (k \in DOMAIN killer /\ killer'[k] = killer[k])
              /\ board' = Top.entry
        /\ (MoveDone /\ ~BoundsCross) =>
              /\ killer' = killer
              /\ Top.i < Len(Top.moves) =>
                    /\ Len(stack') = Len(stack) + 1
                    /\ stack'[Len(stack)].i = Top.i + 1
                    /\ stack'[Len(stack)].alpha =
                          (IF Top.maxi THEN Max(Top.alpha, Neg(ret)) ELSE Top.alpha)
                    /\ stack'[Len(stack)].beta =
                          (IF Top.maxi THEN Top.beta ELSE Min(Top.beta, Neg(ret)))
              /\ Top.i = Len(Top.moves) =>
                    /\ stack' = Rest
                    /\ LegalSet(Fen(Top.entry)) =
                          {Top.moves[k] : k \in 1 .. Len(Top.moves)}
        /\ killer' # killer => (MoveDone /\ BoundsCross)
      ]_vars

\* a cutoff has happened at the first of two moves: a killer is stored and
\* the position after the second move was never searched
C13_Witness ==
    /\ obs.ev = "cutoff"
    /\ stack = << >>
    /\ DOMAIN killer # {}
    /\ \E k \in 1 .. Len(LegalMoves(Fen(board))) :
          LegalMoves(Fen(board))[k].nxt \notin DOMAIN tt


\* ------------------------------------------------------------------------
\* C14  (as amended)  The history table is written only by the root loop of
\* iterative_deepening_search: after each root move is searched, if a best
\* root move is known (the one just searched if its value exceeds alpha, else
\* the one known before), its score (from, to) grows by depth * depth, so a
\* best move is scored once for every root move searched while it is best.
\* minimax, with its cutoffs, order_moves and evaluate_position never write
\* the history table.
\* ------------------------------------------------------------------------

\* the best root move once the root move just searched is accounted for
RootBest == IF Neg(ret) > Top.alpha THEN Top.moves[Top.i] ELSE Top.best

C14_HistoryAtRoot ==
    [][ /\ history' # history => Running("ids", "child_ret")
        /\ (Running("ids", "child_ret") /\ RootBest = NoMove) => history' = history
        /\ (Running("ids", "child_ret") /\ RootBest # NoMove) =>
              LET key == << RootBest.from, RootBest.to >>
                  old == IF key \in DOMAIN history THEN history[key] ELSE 0
              IN  /\ DOMAIN history' = DOMAIN history \cup {key}
                  /\ history'[key] = old + Top.depth * Top.depth
                  /\ \A k \in DOMAIN history : k # key => history'[k] = history[k]
      ]_vars

\* one iteration at depth 1 has scored its best root move twice: once when it
\* became the best, once after the other root move was searched
C14_Witness ==
    /\ max_depth = 1
    /\ calls = 1
    /\ call.fn = "get_move"
    /\ \E k \in DOMAIN history : history[k] = 2

\* C14 as stated: the history table changes only at a cutoff inside minimax
C14_Original ==
    [][ history' # history =>
           (stack # << >> /\ Top.fn = "minimax" /\ MoveDone /\ BoundsCross) ]_vars


\* ------------------------------------------------------------------------
\* C15  order_moves returns a permutation of the legal-move list of the
\* position in non-increasing order of score, moves of equal score in the
\* order of the enumeration, where the score of a move is
\* 10000 + value(captured) - value(attacker) if it is a capture (else 0),
\* plus 9000 if the killer slot (depth, from) holds its destination, plus
\* its history score if it has one.
\* ------------------------------------------------------------------------

\* the step calls order_moves: at the entry of the root loop, or where the
\* move loop of a minimax node starts
OrdersMoves ==
    \/ Running("ids", "enter")
    \/ /\ stack # << >>
       /\ Top.fn = "minimax"
       /\ Top.pc \in {"enter", "null_ret"}
       /\ Len(stack') = Len(stack) + 1
       /\ Caller.pc = "full_ret"

\* the list order_moves returned to the step
Ordered == IF Running("ids", "enter") THEN Top'.moves ELSE Caller.moves

\* the piece a capture takes: the one on the destination square, or the
\* pawn beside it when the capture is en passant
Captured(b, m) ==
    IF PieceAt(b, m.to) # NoPiece THEN PieceAt(b, m.to)
    ELSE Pc("P", ~b.turn, m.to)

\* the score of move m as C15 states it
StatedScore(b, depth, m) ==
    (IF m.cap
     THEN 10000 + PieceValue(Captured(b, m).t) - PieceValue(PieceAt(b, m.from).t)
     ELSE 0)
    + (IF << depth, m.from >> \in DOMAIN killer /\ killer[<< depth, m.from >>] = m.to
       THEN 9000 ELSE 0)
    + (IF << m.from, m.to >> \in DOMAIN history THEN history[<< m.from, m.to >>]
       ELSE 0)

\* the place of move m in the list q
RECURSIVE IndexIn(_, _)
IndexIn(q, m) == IF Head(q) = m THEN 1 ELSE 1 + IndexIn(Tail(q), m)

C15_OrderMoves ==
    [][ OrdersMoves =>
           LET p    == Fen(Top.entry)
               b    == BoardAt(variant, p)
               enum == Enumerate(p)
               out  == Ordered
               sc(m) == StatedScore(b, Top.depth, m)
           IN  /\ Len(out) = Len(enum)
               /\ \A k \in 1 .. Len(enum) :
                     Cardinality({j \in 1 .. Len(out) : out[j] = enum[k]}) = 1
               /\ \A i, j \in 1 .. Len(out) :
                     i < j =>
                        /\ sc(out[i]) >= sc(out[j])
                        /\ sc(out[i]) = sc(out[j]) =>
                              IndexIn(enum, out[i]) < IndexIn(enum, out[j])
      ]_vars


\* ------------------------------------------------------------------------
\* C16  Tables only accumulate.  Over any sequence of calls on one engine
\* no key of the transposition table is removed and no stored value is
\* replaced by another; no key of the history table is removed and no
\* history score decreases; a killer slot that is set is never emptied.
\* ------------------------------------------------------------------------

C16_TablesAccumulate ==
    [][ /\ \A k \in DOMAIN tt : k \in DOMAIN tt' /\ tt'[k] = tt[k]
        /\ \A k \in DOMAIN history :
              k \in DOMAIN history' /\ history'[k] >= history[k]
        /\ \A k \in DOMAIN killer :
              k \in DOMAIN killer' /\ killer'[k] # NoSquare
      ]_vars

\* a second call has returned on an engine whose three tables have entries,
\* the transposition table having grown during that call
C16_Witness ==
    /\ calls = 2
    /\ stack = << >>
    /\ DOMAIN killer # {}
    /\ DOMAIN history # {}
    /\ Cardinality(DOMAIN tt) >= 4
    /\ obs.ev \in {"gm_end", "end", "cutoff"}


\* ------------------------------------------------------------------------
\* C17  The time budget only prevents new work.  Once the time is up, every
\* minimax call on a position that is not cached returns the static
\* evaluation and caches it without pushing a move, and one on a cached
\* position returns the cached value; the root loop searches no further root
\* move and get_move starts no further iteration; a node in flight goes on
\* with its move loop, each child it still calls returning at once.
\* ------------------------------------------------------------------------

\* time.time() - self.start_time has been seen to exceed self.time_limit
TimeIsUp == ~unlimited /\ clock = "up"

C17_TimeBudget ==
    [][ (TimeIsUp /\ stack # << >>) =>
           /\ clock' = clock
           /\ (Running("minimax", "enter") /\ Fen(board) \notin DOMAIN tt) =>
                 /\ stack' = Rest
                 /\ ret' = EvaluatePosition(BoardAt(variant, Fen(board)))
                 /\ tt' = [k \in DOMAIN tt \cup {Fen(board)} |->
                              IF k = Fen(board) THEN ret' ELSE tt[k]]
                 /\ board' = board
                 /\ nodes' = nodes + 1
           /\ (Running("minimax", "enter") /\ Fen(board) \in DOMAIN tt) =>
                 /\ stack' = Rest
                 /\ ret' = tt[Fen(board)]
                 /\ board' = board
           /\ Running("ids", "loop") =>
                 /\ stack' = Rest
                 /\ best_move' = Top.best
                 /\ board' = board
                 /\ tt' = tt
           /\ Running("get_move", "loop") =>
                 /\ stack' = << >>
                 /\ best_move' = Top.best
                 /\ tt' = tt
           /\ (MoveDone /\ ~BoundsCross /\ Top.i < Len(Top.moves)) =>
                 /\ Len(stack') = Len(stack) + 1
                 /\ stack'[Len(stack)].i = Top.i + 1
      ]_vars

\* the time ran out while a node of depth 2 or more was in its move loop:
\* its second child, not cached and with moves of its own, has returned its
\* static evaluation
C17_Witness ==
    /\ TimeIsUp
    /\ obs.ev = "leaf"
    /\ Running("minimax", "zw_ret")
    /\ Top.depth >= 2
    /\ ~GameOver(Fen(board))
    /\ ret = EvaluatePosition(BoardAt(variant, Fen(board)))


\* ------------------------------------------------------------------------
\* C18  The cache has no depth tag, so iterative deepening collapses.  In
\* the first get_move of a new engine, book disabled and clock never
\* expiring, the iteration of depth 1 caches the static evaluation of every
\* root child; in every later iteration a root child is a cache hit with that
\* value, no node below a root child is entered, and the move returned
\* attains the maximum over the legal moves of the negated static evaluation
\* of the child position.
\* ------------------------------------------------------------------------

FreshSearch ==
    /\ call.fn = "get_move"
    /\ call.src = "search"
    /\ calls = 1
    /\ unlimited
    /\ ~use_book

\* evaluate_position of the position a move leads to, negated as line 217
\* negates the value of a root child
StaticValue(m) == Neg(EvaluatePosition(BoardAt(variant, m.nxt)))

C18_CacheCollapse ==
    [][ (FreshSearch /\ stack # << >>) =>
           /\ Len(stack') <= 3
           /\ Running("minimax", "enter") =>
                 /\ stack' = Rest
                 /\ ret' = EvaluatePosition(BoardAt(variant, Fen(board)))
                 /\ stack[Len(stack) - 1].depth >= 2 =>
                       /\ obs'.ev = "hit"
                       /\ nodes' = nodes
           /\ Running("ids", "child_ret") =>
                 /\ Neg(ret) = StaticValue(Top.moves[Top.i])
                 /\ Fen(board) \in DOMAIN tt
                 /\ tt[Fen(board)] = ret
           /\ (Running("get_move", "loop") /\ stack' = << >> /\ max_depth >= 1
                  /\ LegalSet(Fen(board)) # {}) =>
                 /\ best_move' \in LegalSet(Fen(board))
                 /\ \A m \in LegalSet(Fen(board)) :
                       StaticValue(best_move') >= StaticValue(m)
      ]_vars

\* a search to depth 2 or more has returned a move after all its iterations,
\* and the exhaustive search to that depth prefers another move
C18_Witness ==
    /\ FreshSearch
    /\ stack = << >>
    /\ max_depth >= 2
    /\ Len(call.iters) = max_depth
    /\ best_move # NoMove
    /\ \E m \in LegalSet(Fen(board)) :
          MoveValue(variant, m, max_depth) > MoveValue(variant, best_move, max_depth)


\* ------------------------------------------------------------------------
\* C19  The re-search of principal variation search changes nothing.
\* Whenever the zero-window result of a child lies strictly between alpha
\* and beta, the child is in the transposition table with that result, and
\* the full-window re-search is a cache hit that returns the same value and
\* searches no node.  A zero-window search that ended in a null-move prune
\* cached nothing, its result is alpha, and no re-search follows it.
\* ------------------------------------------------------------------------

\* the zero-window search of a move has just returned
ZeroWindowReturned == Running("minimax", "zw_ret")

C19_ResearchIsNoOp ==
    [][ /\ (ZeroWindowReturned /\ NeedsResearch(Top)) =>
              /\ Fen(board) \in DOMAIN tt
              /\ tt[Fen(board)] = ret
              /\ obs'.ev = "research"
        /\ obs.ev = "research" =>
              /\ obs'.ev = "hit"
              /\ stack' = Rest
              /\ ret' = ret
              /\ nodes' = nodes
              /\ tt' = tt
              /\ board' = board
        /\ (ZeroWindowReturned /\ obs.ev = "prune") =>
              /\ Fen(board) \notin DOMAIN tt
              /\ ChildEval = Top.alpha
              /\ obs'.ev # "research"
      ]_vars

\* the re-search of a move other than the first has returned from the cache
C19_Witness ==
    /\ obs.ev = "hit"
    /\ Running("minimax", "full_ret")
    /\ Top.i >= 2
    /\ Top.alpha < ChildEval
    /\ ChildEval < Top.beta
    /\ Top.depth >= 2
    /\ ~GameOver(Fen(board))


\* ------------------------------------------------------------------------
\* C20  Bounded recursion and termination.  In every minimax call made under
\* get_move the depth is in 0 .. max_depth - 1; every call of minimax has a
\* depth of 0 or more and each recursive call a depth strictly smaller than
\* its caller's (the null-move child of depth - 3 exists only under a node of
\* depth 3 or more); get_move comes to its end by returning, whatever
\* max_depth is and whether or not the clock expires, and returns no move
\* when max_depth is 0.
\* ------------------------------------------------------------------------

\* get_move is on the call stack
InGetMove == stack # << >> /\ stack[1].fn = "get_move"

DepthBounded ==
    /\ \A k \in 1 .. Len(stack) :
          stack[k].fn = "minimax" =>
             /\ stack[k].depth >= 0
             /\ InGetMove => stack[k].depth <= max_depth - 1
    /\ \A k \in 1 .. Len(stack) - 1 :
          stack[k].fn # "get_move" =>
             /\ stack[k + 1].fn = "minimax"
             /\ stack[k + 1].depth < stack[k].depth
             /\ stack[k].pc = "null_ret" =>
                   /\ stack[k].depth >= 3
                   /\ stack[k + 1].depth = stack[k].depth - 3
    /\ (SearchReturned /\ max_depth = 0) => best_move = NoMove

\* a call of get_move that has come to its end has returned
EndsByReturn == (stack = << >> /\ call.fn = "get_move") => call.src # "raise"

C20_BoundedRecursion ==
    /\ []DepthBounded
    /\ []EndsByReturn
    /\ InGetMove ~> stack = << >>

=============================================================================
